---- MODULE Spec2Model ----
(***************************************************************************)
(* QuicKart store-layout API: the GraphQL resolvers of                     *)
(* src/model/items/index.js (and the createItem resolver of the second     *)
(* copy of the file) over the five MongoDB collections Item, Aisles,       *)
(* Checkout, Map and Inventory.                                            *)
(*                                                                         *)
(* A collection is the sequence of its documents in insertion order.  A    *)
(* store-assigned _id (ObjectID) is the pair <<collection, position>>.     *)
(* A value that may be null/undefined is a sequence of length 0 or 1.      *)
(***************************************************************************)
EXTENDS Integers, Sequences, FiniteSets, TLC

\* Map, Aisles, Checkout, Item, Inventory: the collections.
\* lookupLen[k]: the length of Map when the request that inserted Map[k] did
\*               its title lookup (history of createMap's first await).
\* reqs:         the createMap requests suspended at an await.
\* lastOp:       the resolver call that completed last: its arguments, the
\*               store calls it made, what it threw and what it returned.
VARIABLES Map, Aisles, Checkout, Item, Inventory, lookupLen, reqs, lastOp

vars == <<Map, Aisles, Checkout, Item, Inventory, lookupLen, reqs, lastOp>>

colls == <<Map, Aisles, Checkout, Item, Inventory>>

(***************************************************************************)
(* Bounds of the model and the inputs the requests are drawn from.         *)
(***************************************************************************)
MaxDocs == 3
MaxInventory == 2
MaxItems == 2
MaxWideCoord == 5

Requests == {1, 2}
Titles == {"Main Store", "Annex"}
Descriptions == {"d1", "d2"}
Dims == {-1, 0, 1}
AisleNumbers == {1}
AisleNames == {"A"}
Lanes == {1}
InventoryIds == {1, 2}
InventoryTitles == {"stock", "backroom"}

Box(xs, xe, ys, ye) ==
    [xStartVal |-> xs, xEndVal |-> xe, yStartVal |-> ys, yEndVal |-> ye]

Boxes ==
    {Box(0, 0, 0, 0), Box(2, 0, 0, 0), Box(0, 2, 0, 2), Box(0, 2, 0, 0),
     Box(-1, 0, 0, 0)}

WideBoxes ==
    {Box(xs, xe, y[1], y[2]) :
        xs \in {-1, 2}, xe \in -2 .. MaxWideCoord, y \in {<<0, 0>>, <<0, -5>>}}

\* The inputs of the concurrent specification.
ConcBoxes == {Box(0, 0, 0, 0), Box(0, 2, 0, 0)}
ConcDims == {0, 1}

NoBox == Box(0, 0, 0, 0)

ItemNames == {"apple", "bread"}

(***************************************************************************)
(* Error messages.                                                         *)
(***************************************************************************)
NoError == "none"
MapExists == "Map already exists"
InvalidDims == "Invalid map dimensions. Must have an area of at least 1 unit"
AisleExceeds == "Aisle dimensions exceed map dimensions"
CheckoutExceeds == "Checkout lane dimensions exceed map dimensions"
MapNotFound == "Map not found"
ReferenceError == "ReferenceError"
TypeError == "TypeError"

(***************************************************************************)
(* The data store: findOne by filter, find().toArray(), insert.            *)
(***************************************************************************)
First(hits) == IF hits = <<>> THEN <<>> ELSE <<Head(hits)>>

findOneById(coll, id) == First(SelectSeq(coll, LAMBDA d : d._id = id))

findOneByTitleNoMatch(M, title) ==
    First(SelectSeq(M, LAMBDA d : d.description = title))

findOneByTitle(M, title) == First(SelectSeq(M, LAMBDA d : d.title = title))

findOneInventory(I, id) == First(SelectSeq(I, LAMBDA d : d.id = id))

toArrayEmpty(coll) == <<>>

toArray(coll) == coll

ObjectID(name, coll) == <<name, Len(coll) + 1>>

Idle == [pc |-> "idle", title |-> "", description |-> "", width |-> 0,
         length |-> 0, aisles |-> <<>>, checkoutLanes |-> <<>>, seen |-> 0]

Op(op) ==
    [op |-> op, title |-> "", description |-> "", width |-> 0,
     length |-> 0, box |-> NoBox,
     id |-> <<"", 0>>, error |-> NoError, ret |-> <<>>, calls |-> <<>>,
     bays |-> <<>>]

\* Documents held by the collections a map is built from.
stored == Len(Map) + Len(Aisles) + Len(Checkout)

Init ==
    /\ Map = <<>>
    /\ Aisles = <<>>
    /\ Checkout = <<>>
    /\ Item = <<>>
    /\ Inventory = <<>>
    /\ lookupLen = <<>>
    /\ reqs = [r \in Requests |-> Idle]
    /\ lastOp = Op("start")

(***************************************************************************)
(* createAisle.  horizonBayLength = width/3 is a JavaScript Number and is  *)
(* fractional when 3 does not divide width, so the bay coordinates are     *)
(* kept in thirds of a unit: the coordinate c is the integer 3*c.  The     *)
(* comparisons i == horizonBayLength, i == horizonBayLength*2 and          *)
(* i == horizonBayLength*3 are 3*i = width, 3*i = 2*width and i = width.   *)
(***************************************************************************)
Thirds(c) == 3 * c

bayPushMisplaced(i, width, xStartVal, xEndVal, bayCoordinates) ==
    IF 3 * i = width
    THEN Append(bayCoordinates,
                <<Thirds(xStartVal), Thirds(xStartVal + i)>>)
    ELSE IF 3 * i = 2 * width
    THEN Append(bayCoordinates,
                <<Thirds(xStartVal) + width, Thirds(xStartVal + i)>>)
    ELSE IF i = width
    THEN Append(bayCoordinates,
                <<Thirds(xStartVal) + 2 * width, Thirds(xEndVal)>>)
    ELSE bayCoordinates

bayPush(i, width, xStartVal, xEndVal, bayCoordinates) ==
    IF 3 * i = width
    THEN Append(bayCoordinates,
                <<Thirds(xStartVal), Thirds(xStartVal + (i - 1))>>)
    ELSE IF 3 * i = 2 * width
    THEN Append(bayCoordinates,
                <<Thirds(xStartVal) + width, Thirds(xStartVal + (i - 1))>>)
    ELSE IF i = width
    THEN Append(bayCoordinates,
                <<Thirds(xStartVal) + 2 * width, Thirds(xEndVal)>>)
    ELSE bayCoordinates

RECURSIVE bayLoop(_, _, _, _, _)
bayLoop(i, width, xStartVal, xEndVal, bayCoordinates) ==
    IF i <= width
    THEN bayLoop(i + 1, width, xStartVal, xEndVal,
                 bayPush(i, width, xStartVal, xEndVal, bayCoordinates))
    ELSE bayCoordinates

aisleWidth(box) == (box.xEndVal - box.xStartVal) + 1

aisleLength(box) == (box.yEndVal - box.yStartVal) + 1

computeBays(box) ==
    IF aisleWidth(box) > aisleLength(box)
    THEN bayLoop(0, aisleWidth(box), box.xStartVal, box.xEndVal, <<>>)
    ELSE <<>>

\* The document is built and inserted in the else branch only.
persistsAisle(box) == ~(aisleWidth(box) > aisleLength(box))

newAisle(number, name, box) ==
    [_id |-> ObjectID("Aisles", Aisles), number |-> number, name |-> name,
     bays |-> computeBays(box), xStartVal |-> box.xStartVal,
     xEndVal |-> box.xEndVal, yStartVal |-> box.yStartVal,
     yEndVal |-> box.yEndVal]

createAisleOn(boxes) ==
    \E number \in AisleNumbers, name \in AisleNames, box \in boxes :
        /\ persistsAisle(box) => stored < MaxDocs
        /\ Aisles' = IF persistsAisle(box)
                     THEN Append(Aisles, newAisle(number, name, box))
                     ELSE Aisles
        /\ lastOp' = [Op("createAisle") EXCEPT
                        !.box = box,
                        !.bays = computeBays(box),
                        !.calls = IF persistsAisle(box)
                                  THEN <<"Aisles.insert">> ELSE <<>>,
                        !.ret = IF persistsAisle(box)
                                THEN <<newAisle(number, name, box)>>
                                ELSE <<>>]
        /\ UNCHANGED <<Map, Checkout, Item, Inventory, lookupLen, reqs>>

createAisle == createAisleOn(Boxes)

createAisleWide == createAisleOn(WideBoxes)

(***************************************************************************)
(* createCheckout.                                                         *)
(***************************************************************************)
newLane(lane, box) ==
    [_id |-> ObjectID("Checkout", Checkout), lane |-> lane,
     xStartVal |-> box.xStartVal, xEndVal |-> box.xEndVal,
     yStartVal |-> box.yStartVal, yEndVal |-> box.yEndVal]

createCheckoutOn(boxes) ==
    \E lane \in Lanes, box \in boxes :
        /\ stored < MaxDocs
        /\ Checkout' = Append(Checkout, newLane(lane, box))
        /\ lastOp' = [Op("createCheckout") EXCEPT
                        !.box = box,
                        !.calls = <<"Checkout.insert">>,
                        !.ret = <<newLane(lane, box)>>]
        /\ UNCHANGED <<Map, Aisles, Item, Inventory, lookupLen, reqs>>

createCheckout == createCheckoutOn(Boxes)

createCheckoutConc == createCheckoutOn(ConcBoxes)

(***************************************************************************)
(* createMap, handled without interleaving.                                *)
(***************************************************************************)
dimsOkWidthOnly(width, length) == width > 0

dimsOk(width, length) == width > 0 /\ length > 0

validateRange(x, y, min, max) == x >= min /\ y <= max

regionsFit(regions, width, length) ==
    \A i \in 1 .. Len(regions) :
        /\ validateRange(regions[i].xStartVal, regions[i].xEndVal, 0, width)
        /\ validateRange(regions[i].yStartVal, regions[i].yEndVal, 0, length)

newMap(title, description, width, length, aisles, checkoutLanes, M) ==
    [_id |-> ObjectID("Map", M), title |-> title,
     description |-> description, width |-> width, length |-> length,
     aisle |-> aisles, checkout |-> checkoutLanes]

\* What the checks after the two scans throw, if anything.
validateSnapshot(aisles, checkoutLanes, width, length) ==
    IF ~regionsFit(aisles, width, length) THEN AisleExceeds
    ELSE IF ~regionsFit(checkoutLanes, width, length) THEN CheckoutExceeds
    ELSE NoError

createMapResult(title, description, width, length) ==
    IF findOneByTitle(Map, title) # <<>>
    THEN [error |-> MapExists, calls |-> <<"Map.findOne">>, ops |-> <<>>]
    ELSE IF ~dimsOk(width, length)
    THEN [error |-> InvalidDims, calls |-> <<"Map.findOne">>, ops |-> <<>>]
    ELSE LET aisles == toArray(Aisles)
             checkoutLanes == toArray(Checkout)
             thrown == validateSnapshot(aisles, checkoutLanes, width, length)
         IN  IF thrown # NoError
             THEN [error |-> thrown,
                   calls |-> <<"Map.findOne", "Aisles.find", "Checkout.find">>,
                   ops |-> <<>>]
             ELSE [error |-> NoError,
                   calls |-> <<"Map.findOne", "Aisles.find", "Checkout.find",
                               "Map.insert">>,
                   ops |-> <<newMap(title, description, width, length,
                                    aisles, checkoutLanes, Map)>>]

reachesInsertDespiteLaneThrow(error) == error \in {NoError, CheckoutExceeds}

\* A throw leaves the handler before the insert.
reachesInsert(error) == error = NoError

createMapDoc(title, description, width, length) ==
    newMap(title, description, width, length, toArray(Aisles),
           toArray(Checkout), Map)

createMap ==
    \E title \in Titles, description \in Descriptions,
       width \in Dims, length \in Dims :
        LET out == createMapResult(title, description, width, length)
            ins == reachesInsert(out.error)
        IN  /\ ins => stored < MaxDocs
            /\ Map' = IF ins
                      THEN Append(Map, createMapDoc(title, description,
                                                    width, length))
                      ELSE Map
            /\ lookupLen' = IF ins THEN Append(lookupLen, Len(Map))
                            ELSE lookupLen
            /\ lastOp' = [Op("createMap") EXCEPT
                            !.title = title, !.description = description,
                            !.width = width,
                            !.length = length, !.error = out.error,
                            !.calls = out.calls, !.ret = out.ops]
            /\ UNCHANGED <<Aisles, Checkout, Item, Inventory, reqs>>

(***************************************************************************)
(* createInventory and getInventory.                                       *)
(***************************************************************************)
newInventory(id, title, currItems) ==
    [_id |-> ObjectID("Inventory", Inventory), id |-> id, title |-> title,
     items |-> currItems]

createInventory ==
    \E id \in InventoryIds, title \in InventoryTitles :
        LET currItems == toArray(Item)
        IN  /\ Len(Inventory) < MaxInventory
            /\ Inventory' = Append(Inventory, newInventory(id, title, currItems))
            /\ lastOp' = [Op("createInventory") EXCEPT
                            !.id = <<"Inventory", id>>,
                            !.calls = <<"Item.find", "Inventory.insert">>,
                            !.ret = <<newInventory(id, title, currItems)>>]
            /\ UNCHANGED <<Map, Aisles, Checkout, Item, lookupLen, reqs>>

\* inventory.items of a missing inventory (null) is a TypeError.
getInventoryResult(id) ==
    LET inventory == findOneInventory(Inventory, id)
    IN  IF inventory = <<>>
        THEN [error |-> TypeError, ret |-> <<>>]
        ELSE [error |-> NoError, ret |-> inventory[1].items]

getInventory ==
    \E id \in InventoryIds :
        /\ lastOp' = [Op("getInventory") EXCEPT
                        !.id = <<"Inventory", id>>,
                        !.calls = <<"Inventory.findOne">>,
                        !.error = getInventoryResult(id).error,
                        !.ret = getInventoryResult(id).ret]
        /\ UNCHANGED <<colls, lookupLen, reqs>>

(***************************************************************************)
(* createItem: the body refers to newAisle, which is not bound in its      *)
(* scope, so evaluating the argument of insert throws before the call.     *)
(***************************************************************************)
createItem ==
    /\ lastOp' = [Op("createItem") EXCEPT !.error = ReferenceError]
    /\ UNCHANGED <<colls, lookupLen, reqs>>

\* No resolver inserts into Item (createItem throws first), so the Item
\* documents are written to the shared store by another client of it: the
\* persisted Item of the data model, with the fields of type Item.
storeInsertItem ==
    \E name \in ItemNames :
        /\ Len(Item) < MaxItems
        /\ Item' = Append(Item,
                [_id |-> ObjectID("Item", Item), name |-> name,
                 aisle |-> "A", bay |-> "1", price |-> 1, xVal |-> 0,
                 yVal |-> 0])
        /\ UNCHANGED <<Map, Aisles, Checkout, Inventory, lookupLen, reqs,
                       lastOp>>

(***************************************************************************)
(* The lookups by store identifier.                                        *)
(***************************************************************************)
\* The identifiers a lookup is asked for: those of the collection's
\* documents and one that names no document.
IdsOf(name, coll) == {<<name, n>> : n \in 1 .. Len(coll) + 1}

getById(op, name, coll) ==
    \E id \in IdsOf(name, coll) :
        /\ lastOp' = [Op(op) EXCEPT
                        !.id = id, !.calls = <<name \o ".findOne">>,
                        !.ret = findOneById(coll, id)]
        /\ UNCHANGED <<colls, lookupLen, reqs>>

getItem == getById("getItem", "Item", Item)

getAisle == getById("getAisle", "Aisles", Aisles)

getMap == getById("getMap", "Map", Map)

\* The loops of getAllMapCoords over bounds width and length.
RECURSIVE coordsLoop(_, _, _, _)
coordsLoop(x, y, width, length) ==
    IF ~(x < width) THEN <<>>
    ELSE IF ~(y < length) THEN coordsLoop(x + 1, 0, width, length)
    ELSE <<(<<x, y>>)>> \o coordsLoop(x, y + 1, width, length)

\* The identifiers in scope of the resolver body: its parameters and locals.
\* width and length are bound neither there nor at module level.
coordsScope == {"_", "id", "db", "data", "x", "y"}

getAllMapCoordsResult(id) ==
    IF findOneById(Map, id) = <<>>
    THEN [error |-> MapNotFound, ret |-> <<>>]
    ELSE IF ~({"width", "length"} \subseteq coordsScope)
    THEN [error |-> ReferenceError, ret |-> <<>>]
    ELSE [error |-> NoError,
          ret |-> coordsLoop(0, 0, findOneById(Map, id)[1].width,
                             findOneById(Map, id)[1].length)]

getAllMapCoords ==
    \E id \in IdsOf("Map", Map) :
        /\ lastOp' = [Op("getAllMapCoords") EXCEPT
                        !.id = id, !.calls = <<"Map.findOne">>,
                        !.error = getAllMapCoordsResult(id).error,
                        !.ret = getAllMapCoordsResult(id).ret]
        /\ UNCHANGED <<colls, lookupLen, reqs>>

(***************************************************************************)
(* Requests handled one at a time.                                         *)
(***************************************************************************)
\* The resolvers over Aisles, Checkout and Map.
Next ==
    \/ createAisle
    \/ createCheckout
    \/ createMap
    \/ getAisle
    \/ getMap
    \/ getAllMapCoords

Spec == Init /\ [][Next]_vars

\* The resolvers over Item and Inventory, which share no collection with
\* those of Next.
NextItems ==
    \/ storeInsertItem
    \/ createItem
    \/ createInventory
    \/ getItem
    \/ getInventory

SpecItems == Init /\ [][NextItems]_vars

(***************************************************************************)
(* createAisle alone, over a wider range of bounding boxes.                *)
(***************************************************************************)
NextBays == createAisleWide

SpecBays == Init /\ [][NextBays]_vars

(***************************************************************************)
(* createMap handled concurrently: a request suspends at each await, that  *)
(* is at the title lookup, the two scans and the insert, and the code      *)
(* between two awaits runs without interruption.  A request slot holds     *)
(* the handler's position and its locals.                                  *)
(***************************************************************************)
inFlight == Cardinality({r \in Requests : reqs[r].pc # "idle"})

createMapThrow(r, title, description, width, length, error, calls) ==
    /\ reqs' = [reqs EXCEPT ![r] = Idle]
    /\ lastOp' = [Op("createMap") EXCEPT
                    !.title = title, !.description = description,
                    !.width = width, !.length = length,
                    !.error = error, !.calls = calls]

\* await Map.findOne({title}), then the dimension check, up to the call of
\* Aisles.find.
createMapFindOne(r) ==
    \E title \in Titles, description \in Descriptions,
       width \in ConcDims, length \in ConcDims :
        /\ reqs[r].pc = "idle"
        /\ IF findOneByTitle(Map, title) # <<>>
           THEN createMapThrow(r, title, description, width, length, MapExists,
                               <<"Map.findOne">>)
           ELSE IF ~dimsOk(width, length)
           THEN createMapThrow(r, title, description, width, length, InvalidDims,
                               <<"Map.findOne">>)
           ELSE /\ stored + inFlight < MaxDocs
                /\ reqs' = [reqs EXCEPT ![r] =
                              [Idle EXCEPT !.pc = "aisles", !.title = title,
                                 !.description = description,
                                 !.width = width, !.length = length,
                                 !.seen = Len(Map)]]
                /\ UNCHANGED lastOp
        /\ UNCHANGED <<colls, lookupLen>>

\* await Aisles.find().toArray(), up to the call of Checkout.find.
createMapFindAisles(r) ==
    /\ reqs[r].pc = "aisles"
    /\ reqs' = [reqs EXCEPT ![r].pc = "checkout",
                            ![r].aisles = toArray(Aisles)]
    /\ UNCHANGED <<colls, lookupLen, lastOp>>

\* await Checkout.find().toArray(), then both forEach checks, up to the
\* call of Map.insert.
createMapFindCheckout(r) ==
    LET q == reqs[r]
        checkoutLanes == toArray(Checkout)
        thrown == validateSnapshot(q.aisles, checkoutLanes, q.width, q.length)
    IN  /\ q.pc = "checkout"
        /\ IF thrown # NoError
           THEN createMapThrow(r, q.title, q.description, q.width, q.length,
                               thrown,
                               <<"Map.findOne", "Aisles.find",
                                 "Checkout.find">>)
           ELSE /\ reqs' = [reqs EXCEPT ![r].pc = "insert",
                                        ![r].checkoutLanes = checkoutLanes]
                /\ UNCHANGED lastOp
        /\ UNCHANGED <<colls, lookupLen>>

\* await Map.insert(newMap), then the return.
createMapInsert(r) ==
    LET q == reqs[r]
        doc == newMap(q.title, q.description, q.width, q.length, q.aisles,
                      q.checkoutLanes, Map)
    IN  /\ q.pc = "insert"
        /\ Map' = Append(Map, doc)
        /\ lookupLen' = Append(lookupLen, q.seen)
        /\ reqs' = [reqs EXCEPT ![r] = Idle]
        /\ lastOp' = [Op("createMap") EXCEPT
                        !.title = q.title, !.description = q.description,
                        !.width = q.width, !.length = q.length,
                        !.calls = <<"Map.findOne", "Aisles.find",
                                    "Checkout.find", "Map.insert">>,
                        !.ret = <<doc>>]
        /\ UNCHANGED <<Aisles, Checkout, Item, Inventory>>

NextConc ==
    \/ \E r \in Requests : createMapFindOne(r)
    \/ \E r \in Requests : createMapFindAisles(r)
    \/ \E r \in Requests : createMapFindCheckout(r)
    \/ \E r \in Requests : createMapInsert(r)
    \/ createCheckoutConc

SpecConc == Init /\ [][NextConc]_vars

(***************************************************************************)
(* Properties.                                                             *)
(***************************************************************************)
TitleCount(M, T) == Cardinality({i \in 1 .. Len(M) : M[i].title = T})

\* C1: requests handled one at a time: once a createMap with title T has
\* succeeded (a Map document with title T is stored), every later createMap
\* with title T is rejected with "Map already exists", whatever its other
\* arguments, and the Map collection still holds exactly one document with
\* title T.
C1_DuplicateTitleRejected ==
    [][\A T \in Titles :
          (TitleCount(Map, T) > 0 /\ lastOp'.op = "createMap"
              /\ lastOp'.title = T)
          => (lastOp'.error = MapExists /\ lastOp'.ret = <<>>
                 /\ TitleCount(Map', T) = 1)]_vars

C1_Witness ==
    /\ lastOp.op = "createMap"
    /\ lastOp.error = MapExists
    /\ \E i \in 1 .. Len(Map) :
          /\ Map[i].title = lastOp.title
          /\ Map[i].description # lastOp.description
          /\ Map[i].width # lastOp.width
          /\ Map[i].length # lastOp.length

Contained(region, width, length) ==
    /\ 0 <= region.xStartVal /\ region.xStartVal <= width
    /\ 0 <= region.xEndVal /\ region.xEndVal <= width
    /\ 0 <= region.yStartVal /\ region.yStartVal <= length
    /\ 0 <= region.yEndVal /\ region.yEndVal <= length

\* C2: every stored Map has width > 0 and length > 0, and each embedded
\* aisle and checkout lane lies wholly inside it: both ends of its x range
\* in [0, width] and both ends of its y range in [0, length].
C2_MapsContainRegions ==
    \A i \in 1 .. Len(Map) :
        /\ Map[i].width > 0
        /\ Map[i].length > 0
        /\ \A k \in 1 .. Len(Map[i].aisle) :
              Contained(Map[i].aisle[k], Map[i].width, Map[i].length)
        /\ \A k \in 1 .. Len(Map[i].checkout) :
              Contained(Map[i].checkout[k], Map[i].width, Map[i].length)

\* C3: a createMap with width <= 0 or length <= 0 and a title not yet used
\* is rejected with the invalid-dimensions error after the title lookup
\* alone: neither Aisles nor Checkout is read, whatever they hold.
C3_InvalidDimsBeforeScans ==
    [][(lastOp'.op = "createMap"
           /\ (lastOp'.width <= 0 \/ lastOp'.length <= 0)
           /\ TitleCount(Map, lastOp'.title) = 0)
       => (lastOp'.error = InvalidDims
              /\ lastOp'.calls = <<"Map.findOne">>
              /\ lastOp'.ret = <<>>)]_vars

C3_Witness ==
    /\ lastOp.op = "createMap"
    /\ lastOp.error = InvalidDims
    /\ lastOp.width > 0
    /\ lastOp.length <= 0
    /\ TitleCount(Map, lastOp.title) = 0
    /\ \E k \in 1 .. Len(Aisles) : ~Contained(Aisles[k], 1, 1)
    /\ \E k \in 1 .. Len(Checkout) : ~Contained(Checkout[k], 1, 1)

\* C4: a rejected createMap (duplicate title, non-positive dimensions, an
\* aisle outside the map, a checkout lane outside the map) changes none of
\* the five collections and returns no document.
C4_RejectedCreateMapChangesNothing ==
    [][(lastOp'.op = "createMap" /\ lastOp'.error # NoError)
       => (lastOp'.error \in {MapExists, InvalidDims, AisleExceeds,
                              CheckoutExceeds}
              /\ Map' = Map /\ Aisles' = Aisles /\ Checkout' = Checkout
              /\ Item' = Item /\ Inventory' = Inventory
              /\ lastOp'.ret = <<>>)]_vars

C4_Witness ==
    /\ lastOp.op = "createMap"
    /\ lastOp.error = CheckoutExceeds
    /\ Len(Aisles) > 0
    /\ Len(Map) > 0

\* The three ranges [start, start + n/3 - 1], [start + n/3, start + 2n/3 - 1],
\* [start + 2n/3, end] of a span of n cells, in thirds of a unit.
ThreeBays(start, end, n) ==
    << <<Thirds(start), Thirds(start) + n - 3>>,
       <<Thirds(start) + n, Thirds(start) + 2 * n - 3>>,
       <<Thirds(start) + 2 * n, Thirds(end)>> >>

\* Contiguous, non-overlapping ranges of n/3 cells each that cover
\* [start, end] exactly.
Partitions(bays, start, end, n) ==
    /\ Len(bays) = 3
    /\ bays[1][1] = Thirds(start)
    /\ bays[3][2] = Thirds(end)
    /\ \A k \in 1 .. 2 : bays[k + 1][1] = bays[k][2] + Thirds(1)
    /\ \A k \in 1 .. 3 : (bays[k][2] - bays[k][1]) + Thirds(1) = n

HorizontalCall ==
    /\ lastOp.op = "createAisle"
    /\ aisleWidth(lastOp.box) > aisleLength(lastOp.box)
    /\ aisleWidth(lastOp.box) % 3 = 0

C6_VerticalBaysPersisted ==
    \A k \in 1 .. Len(Aisles) :
        aisleWidth(Aisles[k]) <= aisleLength(Aisles[k])
        => Aisles[k].bays = ThreeBays(Aisles[k].yStartVal, Aisles[k].yEndVal,
                                      aisleLength(Aisles[k]))

\* C7: getAllMapCoords on the identifier of a stored Map of width W and
\* length L returns exactly the W*L pairs <<x, y>>, 0 <= x < W, 0 <= y < L,
\* each once, in row-major order, W and L being the document's own fields.
C7_CoordsOfStoredMap ==
    (lastOp.op = "getAllMapCoords" /\ lastOp.id[2] \in 1 .. Len(Map))
    => /\ lastOp.error = NoError
       /\ lastOp.ret = coordsLoop(0, 0, Map[lastOp.id[2]].width,
                                  Map[lastOp.id[2]].length)

\* C8: every create operation, for every valid input, inserts one document
\* into its collection and returns it, and the lookup of that document by
\* its identifier returns the same field values.
C8_CreateRoundTrip ==
    /\ (lastOp.op = "createAisle" \/ lastOp.op = "createItem")
       => (lastOp.error = NoError /\ Len(lastOp.ret) = 1)
    /\ (lastOp.op = "createAisle" /\ Len(lastOp.ret) = 1)
       => findOneById(Aisles, lastOp.ret[1]._id) = lastOp.ret
    /\ (lastOp.op = "createMap" /\ lastOp.error = NoError)
       => (Len(lastOp.ret) = 1
              /\ findOneById(Map, lastOp.ret[1]._id) = lastOp.ret)
    /\ lastOp.op = "createCheckout"
       => (Len(lastOp.ret) = 1
              /\ \E k \in 1 .. Len(Checkout) : Checkout[k] = lastOp.ret[1])

FirstWithId(I, id) ==
    I[CHOOSE i \in 1 .. Len(I) :
         I[i].id = id /\ \A j \in 1 .. i - 1 : I[j].id # id]

C10_NoDuplicateTitles ==
    \A i, j \in 1 .. Len(Map) : Map[i].title = Map[j].title => i = j

\* C10 as amended: two Map documents have the same title only if the
\* requests that inserted them overlapped: the later one did its title
\* lookup before the earlier one was inserted.  A request whose lookup
\* follows the insert of its title never inserts.
C10_DuplicatesOnlyFromOverlap ==
    /\ Len(lookupLen) = Len(Map)
    /\ \A i, j \in 1 .. Len(Map) :
          (i < j /\ Map[i].title = Map[j].title) => lookupLen[j] < i

C10_Witness ==
    /\ Len(Map) = 2
    /\ Map[1].title = Map[2].title
    /\ Map[1].description # Map[2].description
    /\ lookupLen = <<0, 0>>

====
